---- MODULE Spec2Model ----
(***************************************************************************)
(* fs-cleaner: detect -> scan -> flatten -> journal -> rollback, over one  *)
(* directory tree  <base>/D  with the possibly nested  <base>/D/D.         *)
(*                                                                         *)
(* A file name is a sequence of character codes, a path a sequence of      *)
(* names relative to <base>; the filesystem root is the empty path.        *)
(***************************************************************************)
EXTENDS Integers, Sequences, FiniteSets, TLC

VARIABLES
    fs,          \* the tree: fs.top = entries of D, fs.sub = entries of D/D
    journalFile, \* <<>> (no file) or <<text>>: D/.fs-cleaner-journal.json
    pc,          \* position of the running command
    cmd,         \* the command line being served
    cands,       \* Vec<NestingCandidate> returned by detect_nesting
    report,      \* ScanReport.collisions of the running flatten
    risks,       \* ScanReport.symlink_risks of the running flatten
    idx,         \* loop position in flatten / rollback
    moved,       \* flatten's local `moved`
    entries,     \* Journal.entries loaded by the rollback command
    count,       \* rollback's local `count`
    result,      \* what the last (or running) command returned
    prev,        \* result of the command before it, if that one succeeded
    pre,         \* the tree when the last (or running) command started
    preJournal   \* the journal file when the last (or running) command started

vars == <<fs, journalFile, pc, cmd, cands, report, risks, idx, moved, entries,
          count, result, prev, pre, preJournal>>

\* ---------------------------------------------------------------- bounds
\* most entries inside D/D, and most entries of D besides D/D, at the start
MaxNested == 2
MaxOuter == 1
\* most entries a journal built by record() calls holds
MaxEntries == 2

\* ---------------------------------------------------------------- names
\* the directory's own name ("project" in the tests) and the name universe;
\* byte-wise order is  <<1>> < <<2>> < <<2, 1>> < <<3>>. Codes 1 and 2 are
\* ASCII letters, 3 is a byte no UTF-8 text holds (0xFF), 0 is "/"
DirName == <<2>>
RawName == <<3>>
Names == {<<1>>, <<2>>, <<2, 1>>, RawName}
Utf8 == {0, 1, 2}

\* what an entry of D/D or of D can be; "link" is a symlink that resolves
\* (in D it behaves as the file it resolves to, and is left out there),
\* "dangling" one that does not, "linkdir" a symlink to a directory
ChildKinds == {"file", "dir", "dangling"}
OuterKinds == {"file", "dir", "dangling"}
NestedKinds == {"none", "file", "dir", "linkdir"}

NoEntry == [kind |-> "none", org |-> "none"]
Entry(k, o) == [kind |-> k, org |-> o]

\* ---------------------------------------------------------------- paths
\* Path::join
Join(p, n) == Append(p, n)

\* Path::file_name: Some(name) is <<name>>, None is <<>>
FileName(p) == IF Len(p) = 0 THEN <<>> ELSE <<p[Len(p)]>>

\* byte-wise comparison of two names, -1 / 0 / 1
RECURSIVE NameCmp(_, _, _)
NameCmp(a, b, i) ==
    IF i > Len(a) /\ i > Len(b) THEN 0
    ELSE IF i > Len(a) THEN -1
    ELSE IF i > Len(b) THEN 1
    ELSE IF a[i] < b[i] THEN -1
    ELSE IF a[i] > b[i] THEN 1
    ELSE NameCmp(a, b, i + 1)

\* Ord for Path: component by component
RECURSIVE PathCmp(_, _, _)
PathCmp(p, q, i) ==
    IF i > Len(p) /\ i > Len(q) THEN 0
    ELSE IF i > Len(p) THEN -1
    ELSE IF i > Len(q) THEN 1
    ELSE LET c == NameCmp(p[i], q[i], 1)
         IN IF c # 0 THEN c ELSE PathCmp(p, q, i + 1)

PathLess(p, q) == PathCmp(p, q, 1) < 0

\* ---------------------------------------------------------------- the tree
Parent == <<DirName>>
Nested == <<DirName, DirName>>

DirLike(e) == e.kind \in {"dir", "linkdir"}

\* symlink_metadata: the entry a path names, without following a final symlink
Lookup(f, p) ==
    IF Len(p) = 2 /\ p[1] = DirName THEN f.top[p[2]]
    ELSE IF Len(p) = 3 /\ p[1] = DirName /\ p[2] = DirName /\ DirLike(f.top[DirName])
         THEN f.sub[p[3]]
    ELSE NoEntry

\* Path::exists: follows symlinks, so a dangling symlink does not "exist"
Exists(f, p) == Lookup(f, p).kind \in {"file", "dir", "link", "linkdir"}

\* Path::is_dir: follows symlinks
IsDir(f, p) == DirLike(Lookup(f, p))

\* the directory a path lives in is there
DirOf(f, p) ==
    \/ Len(p) = 2 /\ p[1] = DirName
    \/ Len(p) = 3 /\ p[1] = DirName /\ p[2] = DirName /\ DirLike(f.top[DirName])

Put(f, p, e) ==
    IF Len(p) = 2 THEN [f EXCEPT !.top[p[2]] = e]
    ELSE [f EXCEPT !.sub[p[3]] = e]

\* a rename that leaves the source where it was (a copy)
Rename_Copies(f, from, to) ==
    LET src == Lookup(f, from)
        dst == Lookup(f, to)
    IN  IF src = NoEntry \/ ~DirOf(f, to) THEN [ok |-> FALSE, fs |-> f]
        ELSE IF dst # NoEntry /\ (src.kind = "dir" \/ dst.kind = "dir")
             THEN [ok |-> FALSE, fs |-> f]
        ELSE [ok |-> TRUE, fs |-> Put(f, to, src)]

\* fs::rename(from, to) -> [ok, fs]: rename(2) replaces a non-directory
\* destination by a non-directory source, and refuses the mixed cases
Rename(f, from, to) ==
    LET src == Lookup(f, from)
        dst == Lookup(f, to)
    IN  IF src = NoEntry \/ ~DirOf(f, to) THEN [ok |-> FALSE, fs |-> f]
        ELSE IF dst # NoEntry /\ (src.kind = "dir" \/ dst.kind = "dir")
             THEN [ok |-> FALSE, fs |-> f]
        ELSE [ok |-> TRUE, fs |-> Put(Put(f, from, NoEntry), to, src)]

\* fs::remove_dir(D/D): only a real, empty directory goes
RemoveDir(f) ==
    IF f.top[DirName].kind = "dir" /\ \A n \in Names : f.sub[n] = NoEntry
    THEN [ok |-> TRUE, fs |-> [f EXCEPT !.top[DirName] = NoEntry]]
    ELSE [ok |-> FALSE, fs |-> f]

\* ---------------------------------------------------------------- detector
\* the names present in a directory
Present(f, dir) == {n \in Names : Lookup(f, Join(dir, n)) # NoEntry}

\* fs::read_dir: the entries' paths, in whatever order the directory yields
ReadDir(f, dir) ==
    LET S == {Join(dir, n) : n \in Present(f, dir)}
    IN  {s \in [1..Cardinality(S) -> S] : \A i, j \in 1..Cardinality(S) : s[i] = s[j] => i = j}

\* Vec::sort: insert v[k] into the sorted prefix
RECURSIVE Insert(_, _)
Insert(s, x) ==
    IF Len(s) = 0 THEN <<x>>
    ELSE IF PathLess(x, s[Len(s)]) THEN Append(Insert(SubSeq(s, 1, Len(s) - 1), x), s[Len(s)])
    ELSE Append(s, x)

RECURSIVE Sort(_)
Sort(s) == IF Len(s) = 0 THEN <<>> ELSE Insert(Sort(SubSeq(s, 1, Len(s) - 1)), s[Len(s)])

\* list_dir without its sort
list_dir_unsorted(order) == order

\* list_dir: read_dir, collect, sort
list_dir(order) == Sort(order)

\* the variants of enum Error
ErrorKinds == {"Io", "Collision", "Permission", "BrokenSymlink", "CrossDevice", "Other"}

\* Path::canonicalize of the command's path argument: [ok, path]
\*   "dir"     the directory itself          "alias"  a symlink to it
\*   "missing" a path that does not exist    "fsroot" the filesystem root
Roots == {"dir", "alias", "missing", "fsroot"}
Canonicalize(root) ==
    IF root \in {"dir", "alias"} THEN [ok |-> TRUE, path |-> Parent]
    ELSE IF root = "fsroot" THEN [ok |-> TRUE, path |-> <<>>]
    ELSE [ok |-> FALSE, path |-> <<>>]

\* the path detect_nesting hands to list_dir (the root when it gets that far)
Candidate(root) ==
    LET canon == Canonicalize(root)
    IN  canon.path \o FileName(canon.path)

NestingCandidate(p, n, c) == [parent |-> p, nested |-> n, children |-> c]

\* detect_nesting testing exists() where the code tests is_dir()
detect_nesting_exists(f, root, order) ==
    LET canon == Canonicalize(root)
        dir_name == FileName(canon.path)
    IN  IF ~canon.ok THEN [status |-> "Io", cands |-> <<>>]
        ELSE IF dir_name = <<>> THEN [status |-> "Other", cands |-> <<>>]
        ELSE LET candidate == Join(canon.path, dir_name[1])
             IN  IF ~Exists(f, candidate) THEN [status |-> "Ok", cands |-> <<>>]
                 ELSE [status |-> "Ok",
                       cands |-> <<NestingCandidate(canon.path, candidate, list_dir(order))>>]

\* detect_nesting taking a root without a final component as nothing to do
detect_nesting_nameless(f, root, order) ==
    LET canon == Canonicalize(root)
        dir_name == FileName(canon.path)
    IN  IF ~canon.ok THEN [status |-> "Io", cands |-> <<>>]
        ELSE IF dir_name = <<>> THEN [status |-> "Ok", cands |-> <<>>]
        ELSE LET candidate == Join(canon.path, dir_name[1])
             IN  IF ~IsDir(f, candidate) THEN [status |-> "Ok", cands |-> <<>>]
                 ELSE [status |-> "Ok",
                       cands |-> <<NestingCandidate(canon.path, candidate, list_dir(order))>>]

\* detect_nesting, given the order read_dir yields: [status, cands]
detect_nesting(f, root, order) ==
    LET canon == Canonicalize(root)
        dir_name == FileName(canon.path)
    IN  IF ~canon.ok THEN [status |-> "Io", cands |-> <<>>]
        ELSE IF dir_name = <<>> THEN [status |-> "Other", cands |-> <<>>]
        ELSE LET candidate == Join(canon.path, dir_name[1])
             IN  IF ~IsDir(f, candidate) THEN [status |-> "Ok", cands |-> <<>>]
                 ELSE [status |-> "Ok",
                       cands |-> <<NestingCandidate(canon.path, candidate, list_dir(order))>>]

\* ---------------------------------------------------------------- scanner
Collision(s, e) == [source |-> s, existing |-> e]

\* detect_collisions: the children whose destination in parent exists
RECURSIVE detect_collisions(_, _, _)
detect_collisions(f, c, i) ==
    IF i > Len(c.children) THEN <<>>
    ELSE LET child == c.children[i]
             name == FileName(child)
             rest == detect_collisions(f, c, i + 1)
         IN  IF name = <<>> THEN rest
             ELSE LET dest == Join(c.parent, name[1])
                  IN  IF dest = c.nested THEN rest
                      ELSE IF Exists(f, dest) THEN <<Collision(child, dest)>> \o rest
                      ELSE rest

SymlinkRisk(l, inside) == [link |-> l, inside |-> inside]

\* Path::is_symlink
IsSymlink(f, p) == Lookup(f, p).kind \in {"link", "linkdir", "dangling"}

\* detect_symlink_risks: every symlink WalkDir meets from nested down, nested
\* first, then the entries in path order; where a link points is not part of
\* the tree modelled here, so target_inside_nested may come out either way
detect_symlink_risks(f, c) ==
    LET top == IF IsSymlink(f, c.nested) THEN <<SymlinkRisk(c.nested, FALSE)>> ELSE <<>>
        Links == {Join(c.nested, n) : n \in {m \in Present(f, c.nested) : IsSymlink(f, Join(c.nested, m))}}
        walk == Sort(CHOOSE w \in [1..Cardinality(Links) -> Links] :
                        \A l \in Links : \E i \in 1..Cardinality(Links) : w[i] = l)
    IN  {top \o [i \in 1..Len(walk) |-> SymlinkRisk(walk[i], inside[walk[i]])] :
            inside \in [Links -> BOOLEAN]}

\* ScanReport::is_safe
is_safe(collisions, symlink_risks) == Len(collisions) = 0

\* ---------------------------------------------------------------- journal
MoveRecord(from, to) == [from |-> from, to |-> to]

\* a path as the string serde writes: "/" before every component
RECURSIVE PathToStr(_)
PathToStr(p) == IF Len(p) = 0 THEN <<>> ELSE <<0>> \o p[1] \o PathToStr(Tail(p))

\* ... and reads back: split at "/"
RECURSIVE StrToPath(_, _)
StrToPath(s, acc) ==
    IF Len(s) = 0 THEN acc
    ELSE IF s[1] = 0 THEN StrToPath(Tail(s), Append(acc, <<>>))
    ELSE StrToPath(Tail(s), [acc EXCEPT ![Len(acc)] = Append(@, s[1])])

\* Path::to_str is Some: every byte of the path is UTF-8 text
IsUtf8(p) == \A i \in 1..Len(p) : \A k \in 1..Len(p[i]) : p[i][k] \in Utf8

\* the JSON array of {from, to} strings, and the entries read from one
ToJson(es) == [i \in 1..Len(es) |-> [from |-> PathToStr(es[i].from), to |-> PathToStr(es[i].to)]]
\* from_str handing the entries back last first
FromJson_Reversed(js) ==
    [i \in 1..Len(js) |-> MoveRecord(StrToPath(js[Len(js) + 1 - i].from, <<>>),
                                      StrToPath(js[Len(js) + 1 - i].to, <<>>))]

FromJson(js) == [i \in 1..Len(js) |-> MoveRecord(StrToPath(js[i].from, <<>>), StrToPath(js[i].to, <<>>))]

\* serde_json::to_string_pretty(&self.entries): serde refuses a path that is
\* not UTF-8, and then nothing is written
to_string_pretty(es) ==
    [ok |-> \A i \in 1..Len(es) : IsUtf8(es[i].from) /\ IsUtf8(es[i].to), text |-> ToJson(es)]

\* ---------------------------------------------------------------- results
\* what a command returned: `by` is the function whose return ended it,
\* `fault` tells that the operating system refused a rename that the tree
\* itself allowed (EXDEV, EBUSY, EACCES ...)
Res(op, dry, by, status, mv, cnt, ex, fault) ==
    [op |-> op, dry |-> dry, by |-> by, status |-> status, moved |-> mv,
     count |-> cnt, existing |-> ex, fault |-> fault]

NoRes == Res("none", FALSE, "none", "Ok", <<>>, 0, <<>>, FALSE)

\* ---------------------------------------------------------------- start
TreesFrom ==
    {f \in [top : [Names -> {NoEntry} \cup {Entry(k, "parent") : k \in OuterKinds \cup (NestedKinds \ {"none"})}],
            sub : [Names -> {NoEntry} \cup {Entry(k, "nested") : k \in ChildKinds}]] :
        /\ f.top[DirName].kind \in NestedKinds
        /\ \A n \in Names \ {DirName} : f.top[n].kind \in OuterKinds \cup {"none"}
        /\ Cardinality({n \in Names \ {DirName} : f.top[n] # NoEntry}) <= MaxOuter
        /\ Cardinality({n \in Names : f.sub[n] # NoEntry}) <= MaxNested
        /\ ~DirLike(f.top[DirName]) => \A n \in Names : f.sub[n] = NoEntry
        \* the name that is not UTF-8 is given to files of nested only
        /\ f.top[RawName] = NoEntry
        /\ f.sub[RawName].kind \in {"none", "file"}}

Init ==
    /\ fs \in TreesFrom
    /\ journalFile = <<>>
    /\ pc = "idle"
    /\ cmd = [op |-> "none", root |-> "dir", dry |-> FALSE]
    /\ cands = <<>>
    /\ report = <<>>
    /\ risks = <<>>
    /\ idx = 0
    /\ moved = <<>>
    /\ entries = <<>>
    /\ count = 0
    /\ result = NoRes
    /\ prev = NoRes
    /\ pre = fs
    /\ preJournal = <<>>

\* `prev` keeps the previous command's result when it succeeded, or when
\* only the saving of the journal failed
Kept(r) == IF r.status = "Ok" \/ r.by = "save" THEN r ELSE NoRes

\* a command returns: its locals are dropped
Return(r) ==
    /\ pc' = "idle"
    /\ result' = r
    /\ idx' = 0
    /\ moved' = <<>>
    /\ entries' = <<>>
    /\ count' = 0

\* ---------------------------------------------------------------- apply
\* the arguments of `apply <path> [--dry-run]`: detect_nesting runs before
\* dry_run is read, so the flag is varied on the directory's own path only
Args ==
    {[root |-> "dir", dry |-> d] : d \in BOOLEAN}
        \cup {[root |-> r, dry |-> FALSE] : r \in Roots \ {"dir"}}

\* cmd_apply up to the call of flatten: detect_nesting, "Nothing to flatten."
CmdApply(root, dry) ==
    /\ pc = "idle"
    /\ \E order \in ReadDir(fs, Candidate(root)) :
        LET d == detect_nesting(fs, root, order)
        IN  /\ cands' = d.cands
            /\ IF d.status # "Ok"
               THEN Return(Res("apply", dry, "detect_nesting", d.status, <<>>, 0, <<>>, FALSE))
               ELSE IF Len(d.cands) = 0
               THEN Return(Res("apply", dry, "cmd_apply", "Nothing", <<>>, 0, <<>>, FALSE))
               ELSE /\ pc' = "scan"
                    /\ result' = Res("apply", dry, "none", "Running", <<>>, 0, <<>>, FALSE)
                    /\ idx' = 0
                    /\ moved' = <<>>
                    /\ entries' = <<>>
                    /\ count' = 0
    /\ cmd' = [op |-> "apply", root |-> root, dry |-> dry]
    /\ report' = <<>>
    /\ risks' = <<>>
    /\ prev' = Kept(result)
    /\ pre' = fs
    /\ preJournal' = journalFile
    /\ UNCHANGED <<fs, journalFile>>

\* flatten refusing to go on when a symlink would break (BrokenSymlink)
FlattenScan_RisksAbort ==
    /\ pc = "scan"
    /\ risks' \in detect_symlink_risks(fs, cands[1])
    /\ LET collisions == detect_collisions(fs, cands[1], 1)
       IN  /\ report' = collisions
           /\ IF Len(collisions) # 0
              THEN Return(Res("apply", cmd.dry, "flatten", "Collision", <<>>, 0,
                              collisions[1].existing, FALSE))
              ELSE IF \E i \in 1..Len(risks') : risks'[i].inside
              THEN Return(Res("apply", cmd.dry, "flatten", "BrokenSymlink", <<>>, 0,
                              risks'[1].link, FALSE))
              ELSE /\ pc' = "move"
                   /\ idx' = 1
                   /\ UNCHANGED <<result, moved, entries, count>>
    /\ cmd' = [cmd EXCEPT !.root = "dir"]
    /\ UNCHANGED <<fs, journalFile, cands, prev, pre, preJournal>>

\* flatten going on to the moves whatever the scan found
FlattenScan_NoAbort ==
    /\ pc = "scan"
    /\ report' = detect_collisions(fs, cands[1], 1)
    /\ risks' \in detect_symlink_risks(fs, cands[1])
    /\ pc' = "move"
    /\ idx' = 1
    /\ cmd' = [cmd EXCEPT !.root = "dir"]
    /\ UNCHANGED <<result, moved, entries, count>>
    /\ UNCHANGED <<fs, journalFile, cands, prev, pre, preJournal>>

\* flatten, step 1: scan, and abort on the first collision
FlattenScan ==
    /\ pc = "scan"
    /\ risks' \in detect_symlink_risks(fs, cands[1])
    /\ LET collisions == detect_collisions(fs, cands[1], 1)
       IN  /\ report' = collisions
           /\ IF Len(collisions) # 0
              THEN Return(Res("apply", cmd.dry, "flatten", "Collision", <<>>, 0,
                              collisions[1].existing, FALSE))
              ELSE /\ pc' = "move"
                   /\ idx' = 1
                   /\ UNCHANGED <<result, moved, entries, count>>
    \* cmd_apply does not read its path argument again: from here on the
    \* command works on the candidate, whose paths are canonical
    /\ cmd' = [cmd EXCEPT !.root = "dir"]
    /\ UNCHANGED <<fs, journalFile, cands, prev, pre, preJournal>>

\* the loop turn renaming under dry_run too
FlattenMove_DryRenames ==
    /\ pc = "move"
    /\ idx <= Len(cands[1].children)
    /\ LET c == cands[1]
           child == c.children[idx]
           dest == Join(c.parent, FileName(child)[1])
           r == Rename(fs, child, dest)
       IN  IF dest = c.nested
           THEN /\ idx' = idx + 1
                /\ UNCHANGED <<fs, pc, result, moved, entries, count>>
           ELSE IF r.ok
           THEN /\ fs' = r.fs
                /\ moved' = Append(moved, MoveRecord(child, dest))
                /\ idx' = idx + 1
                /\ UNCHANGED <<pc, result, entries, count>>
           ELSE /\ Return(Res("apply", cmd.dry, "flatten", "Io", <<>>, 0, child, FALSE))
                /\ UNCHANGED fs
    /\ UNCHANGED <<journalFile, cmd, cands, report, risks, prev, pre, preJournal>>

\* the loop turn putting the tree back as it was when a rename fails
FlattenMove_UndoesOnFailure ==
    /\ pc = "move"
    /\ idx <= Len(cands[1].children)
    /\ LET c == cands[1]
           child == c.children[idx]
           dest == Join(c.parent, FileName(child)[1])
           r == Rename(fs, child, dest)
       IN  IF dest = c.nested
           THEN /\ idx' = idx + 1
                /\ UNCHANGED <<fs, pc, result, moved, entries, count>>
           ELSE IF cmd.dry
           THEN /\ moved' = Append(moved, MoveRecord(child, dest))
                /\ idx' = idx + 1
                /\ UNCHANGED <<fs, pc, result, entries, count>>
           ELSE \E refused \in {FALSE, r.ok} :
                IF r.ok /\ ~refused
                THEN /\ fs' = r.fs
                     /\ moved' = Append(moved, MoveRecord(child, dest))
                     /\ idx' = idx + 1
                     /\ UNCHANGED <<pc, result, entries, count>>
                ELSE /\ Return(Res("apply", FALSE, "flatten", "Io", <<>>, 0, child, refused))
                     /\ fs' = pre
    /\ UNCHANGED <<journalFile, cmd, cands, report, risks, prev, pre, preJournal>>

\* flatten, steps 2 and 3: one turn of the loop over candidate.children
FlattenMove ==
    /\ pc = "move"
    /\ idx <= Len(cands[1].children)
    /\ LET c == cands[1]
           child == c.children[idx]
           name == FileName(child)
       IN  IF name = <<>>
           THEN /\ Return(Res("apply", cmd.dry, "flatten", "Other", <<>>, 0, <<>>, FALSE))
                /\ UNCHANGED fs
           ELSE LET dest == Join(c.parent, name[1])
                    r == Rename(fs, child, dest)
                IN  IF dest = c.nested
                    THEN /\ idx' = idx + 1
                         /\ UNCHANGED <<fs, pc, result, moved, entries, count>>
                    ELSE IF cmd.dry
                    THEN /\ moved' = Append(moved, MoveRecord(child, dest))
                         /\ idx' = idx + 1
                         /\ UNCHANGED <<fs, pc, result, entries, count>>
                    ELSE \E refused \in {FALSE, r.ok} :
                         IF r.ok /\ ~refused
                         THEN /\ fs' = r.fs
                              /\ moved' = Append(moved, MoveRecord(child, dest))
                              /\ idx' = idx + 1
                              /\ UNCHANGED <<pc, result, entries, count>>
                         ELSE /\ Return(Res("apply", FALSE, "flatten", "Io", <<>>, 0, child, refused))
                              /\ UNCHANGED fs
    /\ UNCHANGED <<journalFile, cmd, cands, report, risks, prev, pre, preJournal>>

\* flatten returning without removing the nested directory
FlattenRemoveDir_Keeps ==
    /\ pc = "move"
    /\ idx > Len(cands[1].children)
    /\ IF cmd.dry
       THEN Return(Res("apply", TRUE, "flatten", "Ok", moved, 0, <<>>, FALSE))
       ELSE /\ pc' = "save"
            /\ result' = Res("apply", FALSE, "flatten", "Ok", moved, 0, <<>>, FALSE)
            /\ UNCHANGED <<idx, moved, entries, count>>
    /\ UNCHANGED <<fs, journalFile, cmd, cands, report, risks, prev, pre, preJournal>>

\* flatten removing nested with whatever is left in it (remove_dir_all)
FlattenRemoveDir_Force ==
    /\ pc = "move"
    /\ idx > Len(cands[1].children)
    /\ IF cmd.dry
       THEN /\ Return(Res("apply", TRUE, "flatten", "Ok", moved, 0, <<>>, FALSE))
            /\ UNCHANGED fs
       ELSE /\ fs' = [fs EXCEPT !.top[DirName] = NoEntry]
            /\ pc' = "save"
            /\ result' = Res("apply", FALSE, "flatten", "Ok", moved, 0, <<>>, FALSE)
            /\ UNCHANGED <<idx, moved, entries, count>>
    /\ UNCHANGED <<journalFile, cmd, cands, report, risks, prev, pre, preJournal>>

\* cmd_apply recording and saving the moves of a dry run as well
FlattenRemoveDir_DrySaves ==
    /\ pc = "move"
    /\ idx > Len(cands[1].children)
    /\ IF cmd.dry
       THEN /\ pc' = "save"
            /\ result' = Res("apply", TRUE, "flatten", "Ok", moved, 0, <<>>, FALSE)
            /\ UNCHANGED <<fs, idx, moved, entries, count>>
       ELSE LET r == RemoveDir(fs)
            IN  IF r.ok
                THEN /\ fs' = r.fs
                     /\ pc' = "save"
                     /\ result' = Res("apply", FALSE, "flatten", "Ok", moved, 0, <<>>, FALSE)
                     /\ UNCHANGED <<idx, moved, entries, count>>
                ELSE /\ Return(Res("apply", FALSE, "flatten", "Io", <<>>, 0, cands[1].nested, FALSE))
                     /\ UNCHANGED fs
    /\ UNCHANGED <<journalFile, cmd, cands, report, risks, prev, pre, preJournal>>

\* flatten, step 4: remove the emptied nested directory, and return
FlattenRemoveDir ==
    /\ pc = "move"
    /\ idx > Len(cands[1].children)
    /\ IF cmd.dry
       THEN /\ Return(Res("apply", TRUE, "flatten", "Ok", moved, 0, <<>>, FALSE))
            /\ UNCHANGED fs
       ELSE LET r == RemoveDir(fs)
            IN  IF r.ok
                THEN /\ fs' = r.fs
                     /\ pc' = "save"
                     /\ result' = Res("apply", FALSE, "flatten", "Ok", moved, 0, <<>>, FALSE)
                     /\ UNCHANGED <<idx, moved, entries, count>>
                ELSE /\ Return(Res("apply", FALSE, "flatten", "Io", <<>>, 0, cands[1].nested, FALSE))
                     /\ UNCHANGED fs
    /\ UNCHANGED <<journalFile, cmd, cands, report, risks, prev, pre, preJournal>>

\* save appending to the journal already stored instead of replacing it
JournalSave_Merges ==
    /\ pc = "save"
    /\ LET json == to_string_pretty(<<>> \o result.moved)
           old == IF journalFile = <<>> THEN <<>> ELSE journalFile[1]
       IN  IF json.ok
           THEN /\ journalFile' = <<old \o json.text>>
                /\ Return(result)
           ELSE /\ Return(Res("apply", FALSE, "save", "Other", result.moved, 0, <<>>, FALSE))
                /\ UNCHANGED journalFile
    /\ UNCHANGED <<fs, cmd, cands, report, risks, prev, pre, preJournal>>

\* cmd_apply after flatten: Journal::new, record, save
JournalSave ==
    /\ pc = "save"
    /\ LET json == to_string_pretty(<<>> \o result.moved)
       IN  IF json.ok
           THEN /\ journalFile' = <<json.text>>
                /\ Return(result)
           ELSE /\ Return(Res("apply", FALSE, "save", "Other", result.moved, 0, <<>>, FALSE))
                /\ UNCHANGED journalFile
    /\ UNCHANGED <<fs, cmd, cands, report, risks, prev, pre, preJournal>>

\* ---------------------------------------------------------------- rollback
\* cmd_rollback: Journal::load, then enter Journal::rollback
CmdRollback ==
    /\ pc = "idle"
    /\ IF journalFile = <<>>
       THEN Return(Res("rollback", FALSE, "load", "Io", <<>>, 0, <<>>, FALSE))
       ELSE /\ entries' = FromJson(journalFile[1])
            /\ idx' = Len(journalFile[1])
            /\ count' = 0
            /\ moved' = <<>>
            /\ pc' = "rollback"
            /\ result' = Res("rollback", FALSE, "none", "Running", <<>>, 0, <<>>, FALSE)
    /\ cmd' = [op |-> "rollback", root |-> "dir", dry |-> FALSE]
    /\ cands' = <<>>
    /\ report' = <<>>
    /\ risks' = <<>>
    /\ prev' = Kept(result)
    /\ pre' = fs
    /\ preJournal' = journalFile
    /\ UNCHANGED <<fs, journalFile>>

\* the loop turn renaming without asking whether `to` exists
RollbackStep_NoExists ==
    /\ pc = "rollback"
    /\ idx >= 1
    /\ LET record == entries[idx]
           r == Rename(fs, record.to, record.from)
       IN  IF r.ok
           THEN /\ fs' = r.fs
                /\ count' = count + 1
                /\ idx' = idx - 1
                /\ UNCHANGED <<pc, result, moved, entries>>
           ELSE /\ Return(Res("rollback", FALSE, "rollback", "Io", <<>>, count, record.to, FALSE))
                /\ UNCHANGED fs
    /\ UNCHANGED <<journalFile, cmd, cands, report, risks, prev, pre, preJournal>>

\* the loop turn putting the nested directory back when it is missing
\* (create_dir_all of the parent of `from`) before it renames
RollbackStep_MakesDir ==
    /\ pc = "rollback"
    /\ idx >= 1
    /\ LET record == entries[idx]
           made == IF fs.top[DirName] = NoEntry
                   THEN [fs EXCEPT !.top[DirName] = Entry("dir", "user")]
                   ELSE fs
           r == Rename(made, record.to, record.from)
       IN  IF Exists(fs, record.to)
           THEN \E refused \in {FALSE, r.ok} :
                IF r.ok /\ ~refused
                THEN /\ fs' = r.fs
                     /\ count' = count + 1
                     /\ idx' = idx - 1
                     /\ UNCHANGED <<pc, result, moved, entries>>
                ELSE /\ Return(Res("rollback", FALSE, "rollback", "Io", <<>>, count, record.to, refused))
                     /\ UNCHANGED fs
           ELSE /\ idx' = idx - 1
                /\ UNCHANGED <<fs, pc, result, moved, entries, count>>
    /\ UNCHANGED <<journalFile, cmd, cands, report, risks, prev, pre, preJournal>>

\* the loop turn counting the entries it skips as well
RollbackStep_CountsSkips ==
    /\ pc = "rollback"
    /\ idx >= 1
    /\ LET record == entries[idx]
           r == Rename(fs, record.to, record.from)
       IN  IF Exists(fs, record.to)
           THEN \E refused \in {FALSE, r.ok} :
                IF r.ok /\ ~refused
                THEN /\ fs' = r.fs
                     /\ count' = count + 1
                     /\ idx' = idx - 1
                     /\ UNCHANGED <<pc, result, moved, entries>>
                ELSE /\ Return(Res("rollback", FALSE, "rollback", "Io", <<>>, count, record.to, refused))
                     /\ UNCHANGED fs
           ELSE /\ idx' = idx - 1
                /\ count' = count + 1
                /\ UNCHANGED <<fs, pc, result, moved, entries>>
    /\ UNCHANGED <<journalFile, cmd, cands, report, risks, prev, pre, preJournal>>

\* the loop turn taking the entries oldest first
RollbackStep_Forward ==
    /\ pc = "rollback"
    /\ idx >= 1
    /\ LET record == entries[Len(entries) + 1 - idx]
           r == Rename(fs, record.to, record.from)
       IN  IF Exists(fs, record.to)
           THEN \E refused \in {FALSE, r.ok} :
                IF r.ok /\ ~refused
                THEN /\ fs' = r.fs
                     /\ count' = count + 1
                     /\ idx' = idx - 1
                     /\ UNCHANGED <<pc, result, moved, entries>>
                ELSE /\ Return(Res("rollback", FALSE, "rollback", "Io", <<>>, count, record.to, refused))
                     /\ UNCHANGED fs
           ELSE /\ idx' = idx - 1
                /\ UNCHANGED <<fs, pc, result, moved, entries, count>>
    /\ UNCHANGED <<journalFile, cmd, cands, report, risks, prev, pre, preJournal>>

\* Journal::rollback: one turn of the loop over entries.iter().rev()
RollbackStep ==
    /\ pc = "rollback"
    /\ idx >= 1
    /\ LET record == entries[idx]
           r == Rename(fs, record.to, record.from)
       IN  IF Exists(fs, record.to)
           THEN \E refused \in {FALSE, r.ok} :
                IF r.ok /\ ~refused
                THEN /\ fs' = r.fs
                     /\ count' = count + 1
                     /\ idx' = idx - 1
                     /\ UNCHANGED <<pc, result, moved, entries>>
                ELSE /\ Return(Res("rollback", FALSE, "rollback", "Io", <<>>, count, record.to, refused))
                     /\ UNCHANGED fs
           ELSE /\ idx' = idx - 1
                /\ UNCHANGED <<fs, pc, result, moved, entries, count>>
    /\ UNCHANGED <<journalFile, cmd, cands, report, risks, prev, pre, preJournal>>

\* Journal::rollback: Ok(count)
RollbackReturn ==
    /\ pc = "rollback"
    /\ idx = 0
    /\ Return(Res("rollback", FALSE, "rollback", "Ok", <<>>, count, <<>>, FALSE))
    /\ UNCHANGED <<fs, journalFile, cmd, cands, report, risks, prev, pre, preJournal>>

\* ---------------------------------------------------------------- the user
\* between two commands the user puts the nested directory back (mkdir D/D)
MkdirNested ==
    /\ pc = "idle"
    /\ fs.top[DirName] = NoEntry
    /\ fs' = [fs EXCEPT !.top[DirName] = Entry("dir", "user")]
    /\ cmd' = [op |-> "mkdir", root |-> "dir", dry |-> FALSE]
    /\ result' = Res("mkdir", FALSE, "none", "Ok", <<>>, 0, <<>>, FALSE)
    /\ prev' = Kept(result)
    /\ pre' = fs
    /\ preJournal' = journalFile
    /\ cands' = <<>>
    /\ report' = <<>>
    /\ risks' = <<>>
    /\ UNCHANGED <<journalFile, pc, idx, moved, entries, count>>

Next ==
    \/ \E a \in Args : CmdApply(a.root, a.dry)
    \/ FlattenScan
    \/ FlattenMove
    \/ FlattenRemoveDir
    \/ JournalSave
    \/ CmdRollback
    \/ RollbackStep
    \/ RollbackReturn
    \/ MkdirNested

Spec == Init /\ [][Next]_vars

\* ---------------------------------------------------------------- the journal alone
\* A Journal value driven through new / record / save / load, with records
\* of any paths: `entries` is the value's entry list, `prev` what the last
\* save returned (with the entries it was given), `result` what the last
\* save or load returned (a load's entries in `moved`).
JRecords ==
    {MoveRecord(<<<<1>>, <<2>>>>, <<<<2>>>>),
     MoveRecord(<<<<2>>, <<1>>>>, <<<<1>>>>),
     MoveRecord(<<<<1>>, RawName>>, <<RawName>>)}

JBatches == {<<r>> : r \in JRecords} \cup {<<r, q>> : r \in JRecords, q \in JRecords}

JInit ==
    /\ fs = [top |-> [n \in Names |-> NoEntry], sub |-> [n \in Names |-> NoEntry]]
    /\ journalFile = <<>>
    /\ pc = "journal"
    /\ cmd = [op |-> "none", root |-> "dir", dry |-> FALSE]
    /\ cands = <<>>
    /\ report = <<>>
    /\ risks = <<>>
    /\ idx = 0
    /\ moved = <<>>
    /\ entries = <<>>
    /\ count = 0
    /\ result = NoRes
    /\ prev = NoRes
    /\ pre = fs
    /\ preJournal = <<>>

\* Journal::new
JNew ==
    /\ pc = "journal"
    /\ entries' = <<>>
    /\ UNCHANGED <<fs, journalFile, pc, cmd, cands, report, risks, idx, moved, count,
                   result, prev, pre, preJournal>>

\* Journal::record
JRecord(moves) ==
    /\ pc = "journal"
    /\ Len(entries) + Len(moves) <= MaxEntries
    /\ entries' = entries \o moves
    /\ UNCHANGED <<fs, journalFile, pc, cmd, cands, report, risks, idx, moved, count,
                   result, prev, pre, preJournal>>

\* Journal::save
JSave ==
    /\ pc = "journal"
    /\ LET json == to_string_pretty(entries)
           r == Res("save", FALSE, "save", IF json.ok THEN "Ok" ELSE "Other", entries, 0, <<>>, FALSE)
       IN  /\ journalFile' = IF json.ok THEN <<json.text>> ELSE journalFile
           /\ result' = r
           /\ prev' = r
    /\ preJournal' = journalFile
    /\ UNCHANGED <<fs, pc, cmd, cands, report, risks, idx, moved, entries, count, pre>>

\* Journal::load
JLoad ==
    /\ pc = "journal"
    /\ result' = IF journalFile = <<>>
                 THEN Res("load", FALSE, "load", "Io", <<>>, 0, <<>>, FALSE)
                 ELSE Res("load", FALSE, "load", "Ok", FromJson(journalFile[1]), 0, <<>>, FALSE)
    /\ UNCHANGED <<fs, journalFile, pc, cmd, cands, report, risks, idx, moved, entries,
                   count, prev, pre, preJournal>>

JNext ==
    \/ JNew
    \/ \E moves \in JBatches : JRecord(moves)
    \/ JSave
    \/ JLoad

JournalSpec == JInit /\ [][JNext]_vars

\* ---------------------------------------------------------------- properties
\* the running or last command is an apply that got a candidate from detect
Applying == cmd.op = "apply" /\ Len(cands) = 1

\* ... and its call of flatten has returned
FlattenReturned == Applying /\ result.by = "flatten"

\* the collisions scan reports for the candidate on the tree the command found
ScanAtStart == detect_collisions(pre, cands[1], 1)

\* the last name of a child path
NameOf(child) == child[Len(child)]

\* C1: when scan reports a collision for the candidate, flatten(candidate,
\* false) returns Collision (carrying the first conflicting path) and the tree
\* is as the command found it: nested, every child, every entry of parent.
C1_CollisionAborts ==
    (Applying /\ ~cmd.dry /\ Len(ScanAtStart) > 0) =>
        /\ fs = pre
        /\ pc \in {"scan", "idle"}
        /\ pc = "idle" =>
            /\ result.status = "Collision"
            /\ result.existing = ScanAtStart[1].existing

\* a collision was reported while another child had a free destination
C1_Witness ==
    /\ Applying /\ ~cmd.dry /\ pc = "idle"
    /\ result.status = "Collision"
    /\ Len(ScanAtStart) > 0
    /\ Len(cands[1].children) > Len(ScanAtStart)
    /\ \E n \in Names : pre.sub[n] # NoEntry /\ fs.sub[n] = pre.sub[n]

\* no child's name is taken in parent by an entry of any kind
NamesFree ==
    \A i \in 1..Len(cands[1].children) :
        LET n == NameOf(cands[1].children[i])
        IN  n # DirName => pre.top[n] = NoEntry

\* C2: on a collision-free candidate (scan reports none, no child's name is
\* taken in parent, nested is a real directory) flatten(candidate, false),
\* when the system refuses no rename, ends with nested gone, every former
\* child at parent/<name>, and as many move records as there were children.
C2_FlattenCompletes ==
    (FlattenReturned /\ ~cmd.dry /\ Len(ScanAtStart) = 0 /\ NamesFree
     /\ pre.top[DirName].kind = "dir" /\ ~result.fault) =>
        /\ result.status = "Ok"
        /\ ~Exists(fs, cands[1].nested)
        /\ \A i \in 1..Len(cands[1].children) :
             LET child == cands[1].children[i]
             IN  Lookup(fs, Join(cands[1].parent, NameOf(child))) = Lookup(pre, child)
        /\ Len(result.moved) = Len(cands[1].children)

\* C3: a rollback run right after a successful apply puts every moved entry
\* back at its path inside nested and leaves nothing at its parent-level path.
C3_RollbackRestores ==
    (pc = "idle" /\ result.op = "rollback" /\ ~result.fault
     /\ prev.op = "apply" /\ ~prev.dry /\ prev.by = "flatten") =>
        \A i \in 1..Len(prev.moved) :
            /\ Lookup(pre, prev.moved[i].to) # NoEntry
            /\ Lookup(fs, prev.moved[i].from) = Lookup(pre, prev.moved[i].to)
            /\ Lookup(fs, prev.moved[i].to) = NoEntry

\* C4: a dry run changes nothing in the tree at any point, and the list it
\* returns is the list the flatten(candidate, false) that follows it returns.
C4_DryRunIsThePlan ==
    /\ (cmd.op = "apply" /\ cmd.dry) => fs = pre
    /\ (FlattenReturned /\ ~cmd.dry /\ result.status = "Ok"
        /\ prev.op = "apply" /\ prev.dry /\ prev.by = "flatten") =>
            result.moved = prev.moved

\* a real flatten returned two moves right after a dry run that planned them
C4_Witness ==
    /\ FlattenReturned /\ ~cmd.dry /\ result.status = "Ok"
    /\ prev.op = "apply" /\ prev.dry /\ prev.by = "flatten"
    /\ Len(prev.moved) >= 2
    /\ fs # pre

\* C5: whatever flatten does and however it ends, every entry parent held
\* before the call, nested aside, is still there and is the same entry.
C5_ParentEntriesKept ==
    Applying =>
        \A n \in Names \ {DirName} : pre.top[n] # NoEntry => fs.top[n] = pre.top[n]

\* C6: the collisions scan reports are exactly the children whose name is
\* taken by an entry of parent, of whatever kind, nested itself aside.
C6_ScanFindsEveryOccupiedName ==
    (Applying /\ pc # "scan") =>
        {report[i].source : i \in 1..Len(report)} =
            {child \in {cands[1].children[i] : i \in 1..Len(cands[1].children)} :
                NameOf(child) # DirName /\ pre.top[NameOf(child)] # NoEntry}

\* C7: a rollback run right after a rollback that returned Ok, on the same
\* journal, renames nothing, changes nothing and returns count 0.
C7_RollbackIdempotent ==
    (cmd.op = "rollback" /\ prev.op = "rollback") =>
        /\ fs = pre
        /\ count = 0
        /\ pc = "idle" =>
            /\ result.by = "rollback"
            /\ result.status = "Ok"
            /\ result.count = 0

\* the second of two rollbacks returned, the first having renamed entries back
C7_Witness ==
    /\ pc = "idle" /\ cmd.op = "rollback" /\ result.by = "rollback"
    /\ prev.op = "rollback" /\ prev.count >= 2

\* C8: when D holds a directory named as D, detect(D) returns one candidate:
\* parent the canonical D, nested D/name(D), children the entries of nested,
\* each once, in ascending path order.
C8_DetectFindsNesting ==
    (cmd.op = "apply" /\ cmd.root \in {"dir", "alias"} /\ pre.top[DirName].kind = "dir") =>
        /\ Len(cands) = 1
        /\ result.by # "detect_nesting" /\ result.status # "Nothing"
        /\ cands[1].parent = Parent
        /\ cands[1].nested = Join(Parent, DirName)
        /\ LET ch == cands[1].children
           IN  /\ {ch[i] : i \in 1..Len(ch)} = {Join(Nested, n) : n \in {m \in Names : pre.sub[m] # NoEntry}}
               /\ \A i, j \in 1..Len(ch) : i < j => PathLess(ch[i], ch[j])

\* detect, called through a symlink to D, has listed two entries or more
C8_Witness ==
    /\ pc = "scan" /\ cmd.root = "alias" /\ pre.top[DirName].kind = "dir"
    /\ Len(cands) = 1
    /\ Len(cands[1].children) >= 2

\* C9: when D/name(D) is missing or does not resolve to a directory, detect(D)
\* returns Ok with no candidate and the tree is untouched.
C9_DetectFindsNothing ==
    (cmd.op = "apply" /\ cmd.root \in {"dir", "alias"} /\ ~IsDir(pre, Join(Parent, DirName))) =>
        /\ pc = "idle"
        /\ cands = <<>>
        /\ result.by = "cmd_apply" /\ result.status = "Nothing"
        /\ fs = pre

\* detect returned no candidate for a D holding a plain file named as D
C9_Witness ==
    /\ pc = "idle" /\ cmd.op = "apply" /\ cmd.root = "dir"
    /\ pre.top[DirName].kind = "file"
    /\ result.status = "Nothing"

\* C10: the apply that follows a successful apply on the same directory gets
\* no candidate from detect: it reports nothing to do and moves nothing.
C10_ApplyIdempotent ==
    (cmd.op = "apply" /\ cmd.root \in {"dir", "alias"}
     /\ prev.op = "apply" /\ ~prev.dry /\ prev.by \in {"flatten", "save"}) =>
        /\ pc = "idle"
        /\ cands = <<>>
        /\ result.status = "Nothing"
        /\ fs = pre

\* nothing to do, right after an apply that moved entries and removed nested
C10_Witness ==
    /\ pc = "idle" /\ cmd.op = "apply" /\ ~cmd.dry /\ result.status = "Nothing"
    /\ prev.op = "apply" /\ ~prev.dry /\ prev.by = "flatten"
    /\ Len(prev.moved) >= 1

C12_OnlySuccessWritesJournal ==
    cmd.op = "apply" =>
        IF pc = "idle" /\ ~result.dry /\ result.by = "flatten" /\ result.status = "Ok"
        THEN journalFile = <<ToJson(result.moved)>>
        ELSE journalFile = preJournal

\* an apply that failed in flatten with an older journal in parent
C12_Witness ==
    /\ cmd.op = "apply" /\ pc = "idle"
    /\ result.by = "flatten" /\ result.status \in {"Io", "Collision"}
    /\ preJournal # <<>>
    /\ Len(preJournal[1]) > 0

\* flatten returned Io from the rename of a child (the error names the child)
RenameFailed ==
    /\ FlattenReturned /\ pc = "idle"
    /\ result.status = "Io"
    /\ result.existing # cands[1].nested

\* C13: when the rename of a child fails, flatten returns Io at once: every
\* child renamed before it is at its destination in parent and no longer in
\* nested, the failing child and the later ones are in nested as they were,
\* and nested is still there.
C13_RenameFailureLeavesPartialState ==
    RenameFailed =>
        LET c == cands[1]
            k == CHOOSE i \in 1..Len(c.children) : c.children[i] = result.existing
            dest(i) == Join(c.parent, FileName(c.children[i])[1])
        IN  /\ \A i \in 1..(k - 1) :
                   IF dest(i) = c.nested
                   THEN Lookup(fs, c.children[i]) = Lookup(pre, c.children[i])
                   ELSE /\ Lookup(fs, dest(i)) = Lookup(pre, c.children[i])
                        /\ Lookup(fs, c.children[i]) = NoEntry
            /\ \A i \in k..Len(c.children) :
                   /\ Lookup(fs, c.children[i]) = Lookup(pre, c.children[i])
                   /\ Lookup(fs, c.children[i]) # NoEntry
            /\ fs.top[DirName] = pre.top[DirName]
            /\ fs.top[DirName] # NoEntry

\* the rename of the second child failed after the first child was moved
C13_Witness ==
    /\ RenameFailed
    /\ Len(cands[1].children) = 2
    /\ result.existing = cands[1].children[2]
    /\ Lookup(fs, cands[1].children[1]) = NoEntry

\* the records of the first n children of c, in the order of c.children
\* (a child whose destination is nested itself has none)
RECURSIVE MovesOf(_, _)
MovesOf(c, n) ==
    IF n = 0 THEN <<>>
    ELSE LET child == c.children[n]
             dest == Join(c.parent, FileName(child)[1])
         IN  IF dest = c.nested THEN MovesOf(c, n - 1)
             ELSE Append(MovesOf(c, n - 1), MoveRecord(child, dest))

\* C14: flatten renames and records the children in the order of
\* candidate.children (at every turn the records are those of the children
\* before the current one and no later child has been renamed), the journal
\* holds the records in that order, and rollback takes the entries last
\* first (at every turn the entries before the current one are untouched and
\* every later entry whose `to` existed has been renamed back).
C14_OrderPreserved ==
    /\ (Applying /\ pc = "move") =>
            /\ moved = MovesOf(cands[1], idx - 1)
            /\ ~cmd.dry => \A i \in idx..Len(cands[1].children) :
                   Lookup(fs, cands[1].children[i]) = Lookup(pre, cands[1].children[i])
    /\ (FlattenReturned /\ result.status = "Ok") =>
            result.moved = MovesOf(cands[1], Len(cands[1].children))
    /\ (FlattenReturned /\ pc = "idle" /\ result.status = "Ok" /\ ~cmd.dry) =>
            FromJson(journalFile[1]) = result.moved
    /\ pc = "rollback" =>
            /\ entries = FromJson(journalFile[1])
            /\ \A i \in 1..idx :
                   /\ Lookup(fs, entries[i].to) = Lookup(pre, entries[i].to)
                   /\ Lookup(fs, entries[i].from) = Lookup(pre, entries[i].from)
            /\ \A i \in (idx + 1)..Len(entries) :
                   Exists(pre, entries[i].to) =>
                       /\ Lookup(fs, entries[i].from) = Lookup(pre, entries[i].to)
                       /\ Lookup(fs, entries[i].to) = NoEntry

\* rollback of a journal of two moves, the second undone and the first not yet
C14_Witness ==
    /\ pc = "rollback"
    /\ Len(entries) = 2
    /\ idx = 1
    /\ count = 1
    /\ Exists(fs, entries[1].to)

\* flatten returned Io from remove_dir (the error names nested)
RemoveFailed ==
    /\ FlattenReturned /\ pc = "idle"
    /\ result.status = "Io"
    /\ result.existing = cands[1].nested

\* C15: nested is there as the command found it through the scan and every
\* turn of the loop; it goes only with every child relocated and nothing left
\* in it; and when something is left in it after the loop (a skipped child)
\* flatten returns Io naming nested, which is still there with what was left
\* in it, every other child being at its destination.
C15_RemoveOnlyAfterMoves ==
    /\ (Applying /\ pc \in {"scan", "move"}) => fs.top[DirName] = pre.top[DirName]
    /\ (Applying /\ fs.top[DirName] # pre.top[DirName]) =>
            /\ pc \in {"save", "idle"}
            /\ result.status \in {"Ok", "Other"}
            /\ fs.top[DirName] = NoEntry
            /\ \A n \in Names : fs.sub[n] = NoEntry
            /\ \A i \in 1..Len(cands[1].children) :
                   Lookup(fs, Join(Parent, NameOf(cands[1].children[i])))
                       = Lookup(pre, cands[1].children[i])
    /\ (FlattenReturned /\ pc = "idle" /\ ~cmd.dry /\ result.status # "Collision"
        /\ (\E n \in Names : fs.sub[n] # NoEntry)) =>
            /\ result.status = "Io"
            /\ fs.top[DirName] = pre.top[DirName]
    /\ RemoveFailed =>
            /\ fs.top[DirName] = pre.top[DirName]
            /\ fs.top[DirName] # NoEntry
            /\ \A i \in 1..Len(cands[1].children) :
                   LET child == cands[1].children[i]
                       dest == Join(Parent, NameOf(child))
                   IN  IF dest = cands[1].nested
                       THEN Lookup(fs, child) = Lookup(pre, child)
                       ELSE /\ Lookup(fs, child) = NoEntry
                            /\ Lookup(fs, dest) = Lookup(pre, child)

\* remove_dir failed on a nested directory that kept a skipped child, after
\* another child was moved out of it
C15_Witness ==
    /\ RemoveFailed
    /\ pre.top[DirName].kind = "dir"
    /\ Len(cands[1].children) = 2
    /\ \E n \in Names : fs.sub[n] # NoEntry
    /\ \E n \in Names : fs.sub[n] = NoEntry /\ pre.sub[n] # NoEntry

\* the entries of the journal rollback loaded, and those among the entries
\* after position k whose `to` existed when rollback was called
Loaded == FromJson(journalFile[1])
Renamed(k) == {i \in (k + 1)..Len(Loaded) : Exists(pre, Loaded[i].to)}

\* rollback() has returned
RollbackReturned == cmd.op = "rollback" /\ pc = "idle" /\ result.by = "rollback"

\* C16: an entry whose `to` does not exist makes rollback neither fail nor
\* touch the tree (its `to` and `from` stay as they were), and the count,
\* at every turn and in Ok(count), is the number of entries renamed back.
C16_RollbackSkipsMissing ==
    /\ pc = "rollback" =>
            /\ count = Cardinality(Renamed(idx))
            /\ \A i \in ((idx + 1)..Len(Loaded)) \ Renamed(idx) :
                   /\ Lookup(fs, Loaded[i].to) = Lookup(pre, Loaded[i].to)
                   /\ Lookup(fs, Loaded[i].from) = Lookup(pre, Loaded[i].from)
    /\ (RollbackReturned /\ result.status = "Ok") =>
            /\ result.count = Cardinality(Renamed(0))
            /\ \A i \in (1..Len(Loaded)) \ Renamed(0) :
                   /\ Lookup(fs, Loaded[i].to) = Lookup(pre, Loaded[i].to)
                   /\ Lookup(fs, Loaded[i].from) = Lookup(pre, Loaded[i].from)
            /\ \A i \in Renamed(0) :
                   /\ Lookup(fs, Loaded[i].to) = NoEntry
                   /\ Lookup(fs, Loaded[i].from) = Lookup(pre, Loaded[i].to)
    /\ (RollbackReturned /\ result.status # "Ok") =>
            /\ result.status = "Io"
            /\ \E k \in 1..Len(Loaded) :
                   /\ Loaded[k].to = result.existing
                   /\ Exists(pre, Loaded[k].to)
                   /\ result.count = Cardinality(Renamed(k))
    /\ (RollbackReturned /\ Renamed(0) = {}) =>
            /\ result.status = "Ok" /\ result.count = 0
            /\ fs = pre

\* rollback returned Ok(1) for a journal of two entries: one renamed back,
\* one skipped because its `to` was not there
C16_Witness ==
    /\ RollbackReturned /\ result.status = "Ok"
    /\ Len(Loaded) = 2
    /\ result.count = 1

\* the paths of the model's tree
AllPaths == {Join(Parent, n) : n \in Names} \cup {Join(Nested, n) : n \in Names}

\* C17: through a rollback command the nested directory is what it was when
\* the command was called (there only if it was there), the journal file is
\* untouched, and a path holds something else than before only if it is the
\* `to` or the `from` of an entry whose `to` existed.
C17_RollbackKeepsNested ==
    cmd.op = "rollback" =>
        /\ fs.top[DirName] = pre.top[DirName]
        /\ journalFile = preJournal
        /\ result.by = "load" => fs = pre
        /\ \A p \in AllPaths :
               Lookup(fs, p) # Lookup(pre, p) =>
                   \E i \in 1..Len(Loaded) :
                       /\ p \in {Loaded[i].to, Loaded[i].from}
                       /\ Exists(pre, Loaded[i].to)

\* rollback right after the apply that removed nested: the first rename back
\* fails for want of the directory, and nested is still missing
C17_Witness ==
    /\ RollbackReturned
    /\ result.status = "Io" /\ ~result.fault
    /\ Len(Loaded) >= 1
    /\ pre.top[DirName] = NoEntry
    /\ fs.top[DirName] = NoEntry

\* C18: symlink risks block nothing. Whatever risks the scan reports,
\* is_safe is the emptiness of collisions; flatten returns Collision exactly
\* when a collision was found; past the scan it goes through the children
\* with the risks reported, an Ok result lists the moves of all the children,
\* and an Io result comes from a rename or a remove_dir that could not be
\* done (or that the system refused), never from a risk.
C18_SymlinkRisksNeverBlock ==
    /\ (Applying /\ pc # "scan") =>
            /\ is_safe(report, risks) <=> (report = <<>>)
            /\ report = ScanAtStart
    /\ (FlattenReturned /\ pc = "idle") =>
            /\ result.status = "Collision" <=> ~is_safe(report, risks)
            /\ is_safe(report, risks) => result.status \in {"Ok", "Io"}
            /\ result.status = "Ok" =>
                   result.moved = MovesOf(cands[1], Len(cands[1].children))
            /\ (result.status = "Io" /\ ~result.fault) =>
                   IF result.existing = cands[1].nested
                   THEN ~RemoveDir(fs).ok
                   ELSE ~Rename(fs, result.existing,
                                Join(Parent, NameOf(result.existing))).ok

\* flatten moved everything and returned Ok although the scan reported two
\* risks, one of them a link whose target lies inside nested
C18_Witness ==
    /\ FlattenReturned /\ pc = "idle"
    /\ ~cmd.dry /\ result.status = "Ok"
    /\ Len(risks) = 2
    /\ risks[1].inside /\ ~risks[2].inside
    /\ Len(result.moved) = 2

\* C19: save replaces the stored journal. After an apply that saved, load
\* returns the moves of that apply and nothing of the journal stored before;
\* the rollback called next works on exactly those moves.
C19_SaveReplaces ==
    /\ (FlattenReturned /\ pc = "idle" /\ ~cmd.dry /\ result.status = "Ok") =>
            /\ Loaded = result.moved
            /\ Len(journalFile[1]) = Len(result.moved)
    /\ (cmd.op = "rollback" /\ result.by # "load"
        /\ prev.op = "apply" /\ ~prev.dry /\ prev.by = "flatten") =>
            /\ Loaded = prev.moved
            /\ pc = "rollback" => entries = prev.moved

\* an apply saved its journal over an older one holding other entries
C19_Witness ==
    /\ FlattenReturned /\ pc = "idle" /\ ~cmd.dry /\ result.status = "Ok"
    /\ preJournal # <<>>
    /\ Len(preJournal[1]) >= 1
    /\ Len(result.moved) >= 1
    /\ FromJson(preJournal[1]) # result.moved

\* C20: every candidate detect returns has nested = parent.join(name of
\* parent), nested a real directory (neither a symlink nor a file), and
\* children the direct contents of nested at detection time, each once.
C20_CandidateInvariant ==
    cmd.op = "apply" =>
        \A k \in 1..Len(cands) :
            LET c == cands[k]
            IN  /\ c.nested = Join(c.parent, FileName(c.parent)[1])
                /\ Lookup(pre, c.nested).kind = "dir"
                /\ {c.children[i] : i \in 1..Len(c.children)}
                       = {Join(c.nested, n) : n \in Present(pre, c.nested)}
                /\ Len(c.children) = Cardinality(Present(pre, c.nested))

\* detect returned an error to cmd_apply
DetectFailed == cmd.op = "apply" /\ pc = "idle" /\ result.by = "detect_nesting"

\* C21 as stated: a root that cannot be resolved makes detect fail with Io,
\* a canonical root without a final component makes it fail with
\* InvalidInput; no candidate, nothing mutated.
C21_DetectErrorKinds ==
    (cmd.op = "apply" /\ cmd.root \in {"missing", "fsroot"}) =>
        /\ DetectFailed
        /\ cmd.root = "missing" => result.status = "Io"
        /\ cmd.root = "fsroot" => result.status = "InvalidInput"
        /\ cands = <<>>
        /\ fs = pre /\ journalFile = preJournal

\* C21: a root that cannot be resolved makes detect fail with Error::Io, a
\* canonical root without a final component makes it fail with Error::Other
\* (enum Error has no InvalidInput); in both cases no candidate is returned
\* and neither the tree nor the journal file is touched.
C21_DetectErrors ==
    /\ (cmd.op = "apply" /\ cmd.root \in {"missing", "fsroot"}) =>
            /\ DetectFailed
            /\ cmd.root = "missing" => result.status = "Io"
            /\ cmd.root = "fsroot" => result.status = "Other"
            /\ cands = <<>>
            /\ fs = pre /\ journalFile = preJournal
    /\ DetectFailed =>
            /\ cmd.root \in {"missing", "fsroot"}
            /\ result.status \in ErrorKinds

\* detect failed on the filesystem root, called on a tree that holds a
\* nested directory with entries
C21_Witness ==
    /\ DetectFailed
    /\ cmd.root = "fsroot" /\ result.status = "Other"
    /\ fs.top[DirName].kind = "dir"
    /\ \E n \in Names : fs.sub[n] # NoEntry

\* C22: conservation. Through an apply whose scan finds no collision (every
\* turn of the loop, a rename failure in the middle, the removal of nested,
\* the saving of the journal) each entry of the children snapshot is at
\* exactly one of nested/<name> and parent/<name>; through a rollback, each
\* entry the journal names is at exactly one of its `from` and its `to`.
C22_Conservation ==
    /\ (Applying /\ ScanAtStart = <<>>) =>
            \A i \in 1..Len(cands[1].children) :
                LET child == cands[1].children[i]
                    dest == Join(Parent, NameOf(child))
                    e == Lookup(pre, child)
                IN  /\ e # NoEntry
                    /\ (Lookup(fs, child) = e) # (Lookup(fs, dest) = e)
    /\ (cmd.op = "rollback" /\ result.by # "load") =>
            \A i \in 1..Len(Loaded) :
                (Lookup(fs, Loaded[i].from).org = "nested")
                    # (Lookup(fs, Loaded[i].to).org = "nested")

\* a rollback stopped by a failing rename after it had put one entry back:
\* of the two entries of the journal one is in nested, the other in parent
C22_Witness ==
    /\ RollbackReturned /\ result.status = "Io"
    /\ Len(Loaded) = 2
    /\ result.count = 1
    /\ Lookup(fs, Loaded[2].from).org = "nested"
    /\ Lookup(fs, Loaded[1].to).org = "nested"

====
